---- MODULE Spec2Model ----
(***************************************************************************)
(* Health-center assignment: the backtracking seed search of heuristic.py  *)
(* (build_initial_solution) and the solution verifier of verifier.py       *)
(* (parse_solution, verify), over small instances.                         *)
(*                                                                         *)
(* Numbers.  Coordinates are drawn from sites whose mutual Euclidean       *)
(* distances are integers, so sqrt is exact.  beta = (max distance) / 5 is *)
(* kept as a fraction [num, den]; the reported objective and the 1e-6      *)
(* tolerances are kept in units of 1e-6 (Scale).                           *)
(***************************************************************************)
EXTENDS Integers, Sequences, FiniteSets, TLC

(* ------------------------------ bounds --------------------------------- *)
MaxN == 3
MaxM == 2
MaxTokens == 3

Sites == {<<0, 0>>, <<3, 4>>, <<15, 20>>}
Pops == {1, 2, 3}
Caps == {2, 4}

\* inputs of the verifier
VNs == {1, 2}
VSites == {<<0, 0>>, <<3, 4>>}
VPops == {1, 2}
VCaps == {3}
LineCounts == {0, 1, 2}

(* ------------------------------ state ---------------------------------- *)
VARIABLES
  num_communities, num_health_centers, nodes,      \* the instance
  pc, arg, ret, stack,                             \* control of the search
  alpha, beta, communities,                        \* derived once
  x, load, residual, y, open_centers, d_min, d_max,\* search state
  x_best, y_best,                                  \* result of the search
  sol_lines, obj_val_reported,                     \* the solution file
  vpc, deployed, assign, vloc, out,                \* control and state of verify
  ipc, communities_sorted, init_pos, init_open,    \* build_capacity_feasible_init
  x_init, y_init                                   \* and its result

inst_vars == <<num_communities, num_health_centers, nodes>>
search_vars == <<pc, arg, ret, stack, alpha, beta, communities,
                 x, load, residual, y, open_centers, d_min, d_max,
                 x_best, y_best>>
file_vars == <<sol_lines, obj_val_reported>>
verify_vars == <<vpc, deployed, assign, vloc, out>>
greedy_vars == <<ipc, communities_sorted, init_pos, init_open, x_init, y_init>>
vars == <<inst_vars, search_vars, file_vars, verify_vars, greedy_vars>>

(* ----------------------------- helpers --------------------------------- *)
None == <<>>
Some(v) == <<v>>
Val(o) == o[1]

Min2(a, b) == IF a <= b THEN a ELSE b
Max2(a, b) == IF a >= b THEN a ELSE b
SetMax(S) == CHOOSE m \in S : \A e \in S : e <= m
SetMin(S) == CHOOSE m \in S : \A e \in S : m <= e
Abs(a) == IF a < 0 THEN 0 - a ELSE a

RECURSIVE SumSeq(_)
SumSeq(s) == IF s = <<>> THEN 0 ELSE Head(s) + SumSeq(Tail(s))

RECURSIVE SumOver(_, _)
SumOver(f, S) ==
  IF S = {} THEN 0
  ELSE LET e == CHOOSE e \in S : TRUE IN f[e] + SumOver(f, S \ {e})

Range(s) == {s[k] : k \in 1..Len(s)}

\* math.sqrt on a perfect square
Sqrt(q) == CHOOSE r \in 0..q : r * r = q

\* Python round() of the quotient n / d (n >= 0, d > 0): half to even
RoundHalfEven(n, d) ==
  LET q == n \div d
      r == n % d
  IN IF 2 * r < d THEN q
     ELSE IF 2 * r > d THEN q + 1
     ELSE IF q % 2 = 0 THEN q ELSE q + 1

\* a <= num/den and a > num/den + 1e-6, without leaving the integers
Scale == 1000000
LeqFrac(a, f) == a * f.den <= f.num
GtFracTol(a, f) == a * f.den * Scale > f.num * Scale + f.den

(* ----------------------------- instance -------------------------------- *)
\* _parse_instance_file: nodes in file order, indices 1..N, one capacity
MakeNodes(n, xy, p, c) ==
  [k \in 1..n |-> [index |-> k, x |-> xy[k][1], y |-> xy[k][2],
                   capacity |-> c, population |-> p[k]]]

\* Distances.__init__ for a part-one instance: keys are node index - 1
Coordinates == [i \in {nodes[k].index - 1 : k \in 1..Len(nodes)} |->
                  LET nd == CHOOSE nd \in Range(nodes) : nd.index - 1 = i
                  IN <<nd.x, nd.y>>]

\* Distances.__getitem__
Dist(i, j) ==
  Sqrt((Coordinates[i][1] - Coordinates[j][1]) * (Coordinates[i][1] - Coordinates[j][1])
       + (Coordinates[i][2] - Coordinates[j][2]) * (Coordinates[i][2] - Coordinates[j][2]))

N == num_communities
M == num_health_centers
pops == [j \in 0..(Len(nodes) - 1) |-> nodes[j + 1].population]
cap == nodes[1].capacity

(* ------------------------ build_initial_solution ----------------------- *)
\* sorted(range(N), key=pops.__getitem__, reverse=True): stable, so equal
\* populations keep ascending index
SortedCommunities ==
  LET rank(a) == 1 + Cardinality({b \in 0..(N - 1) :
                     pops[b] > pops[a] \/ (pops[b] = pops[a] /\ b < a)})
  IN [r \in 1..N |-> CHOOSE a \in 0..(N - 1) : rank(a) = r]

\* candidates = open_centers[:]; candidates.sort(key=lambda i: dist[i, j]):
\* stable, so equal distances keep their order in open_centers
SortByDistIndexTies(oc, j) ==
  LET rank(a) == 1 + Cardinality({b \in 1..Len(oc) :
                     Dist(oc[b], j) < Dist(oc[a], j)
                     \/ (Dist(oc[b], j) = Dist(oc[a], j) /\ oc[b] < oc[a])})
  IN [r \in 1..Len(oc) |-> oc[CHOOSE a \in 1..Len(oc) : rank(a) = r]]
SortByDist(oc, j) ==
  LET rank(a) == 1 + Cardinality({b \in 1..Len(oc) :
                     Dist(oc[b], j) < Dist(oc[a], j)
                     \/ (Dist(oc[b], j) = Dist(oc[a], j) /\ b < a)})
  IN [r \in 1..Len(oc) |-> oc[CHOOSE a \in 1..Len(oc) : rank(a) = r]]

Candidates(oc, j) ==
  IF Len(oc) < M THEN Append(SortByDist(oc, j), j) ELSE SortByDist(oc, j)

PairDists == {Dist(i, j) : <<i, j>> \in {q \in (0..(N - 1)) \X (0..(N - 1)) : q[2] < q[1]}}

\* residual[i] < pops[j]
CapacityFailsLate(res, p) == res + 1 < p
CapacityFails(res, p) == res < p

\* y.pop((i, j))
UnassignKeeps(ys, i, j) == ys
UnassignWithSite(ys, i, j) == ys \ {<<i, j>>, <<i, i>>}
Unassign(ys, i, j) == ys \ {<<i, j>>}

\* the fairness pruning test of lines 76-79
AdmissibleAnyWorkload(dmin, dmax, ld, oc) == LeqFrac(Val(dmax) - Val(dmin), beta)
Admissible(dmin, dmax, ld, oc) ==
  /\ LeqFrac(Val(dmax) - Val(dmin), beta)
  /\ LET w_vals == {ld[c] : c \in Range(oc)}
         gap == IF w_vals # {} THEN SetMax(w_vals) - SetMin(w_vals) ELSE 0
     IN gap <= alpha

\* the state arrays of lines 28-36 that a candidate changes; a frame keeps
\* their value at its entry and at the start of its current candidate
SearchState ==
  [open_centers |-> open_centers, x |-> x, load |-> load, residual |-> residual,
   y |-> y, d_min |-> d_min, d_max |-> d_max]

Top == stack[Len(stack)]
Pop(s) == SubSeq(s, 1, Len(s) - 1)
SetTop(f) == [stack EXCEPT ![Len(stack)] = f]

\* lines 12-36; max() of no pair raises ValueError when N = 1
Setup ==
  /\ pc = "start"
  /\ IF PairDists = {}
     THEN /\ pc' = "crashed"
          /\ UNCHANGED <<alpha, beta, communities>>
     ELSE /\ alpha' = RoundHalfEven(SumSeq([k \in 1..N |-> pops[k - 1]]), 5 * M)
          /\ beta' = [num |-> SetMax(PairDists), den |-> 5]
          /\ communities' = SortedCommunities
          /\ pc' = "call"
  /\ UNCHANGED <<arg, ret, stack, x, load, residual, y, open_centers, d_min, d_max,
                 x_best, y_best>>
  /\ UNCHANGED <<inst_vars, file_vars, verify_vars, greedy_vars>>

\* backtrack(idx), lines 40-43: every community placed
AllAssigned ==
  /\ pc = "call"
  /\ arg = Len(communities)
  /\ x_best' = x
  /\ y_best' = y
  /\ ret' = TRUE
  /\ pc' = "return"
  /\ UNCHANGED <<arg, stack, alpha, beta, communities,
                 x, load, residual, y, open_centers, d_min, d_max>>
  /\ UNCHANGED <<inst_vars, file_vars, verify_vars, greedy_vars>>

\* backtrack(idx), lines 45-50: a new frame with its candidate list and the
\* search state it starts from
Enter ==
  /\ pc = "call"
  /\ arg # Len(communities)
  /\ LET j == communities[arg + 1]
     IN stack' = Append(stack,
          [idx |-> arg, j |-> j, candidates |-> Candidates(open_centers, j),
           k |-> 1, i |-> j, opening |-> FALSE,
           old_dmin |-> None, old_dmax |-> None,
           entry |-> SearchState, saved |-> SearchState])
  /\ pc' = "loop"
  /\ UNCHANGED <<arg, ret, alpha, beta, communities,
                 x, load, residual, y, open_centers, d_min, d_max, x_best, y_best>>
  /\ UNCHANGED <<inst_vars, file_vars, verify_vars, greedy_vars>>

\* lines 51-63: next candidate, tentative opening, capacity check
TryCandidate ==
  /\ pc = "loop"
  /\ Top.k <= Len(Top.candidates)
  /\ LET f == Top
         i == f.candidates[f.k]
         j == f.j
         opening == (i = j /\ x[i] = 0)
         x1 == IF opening THEN [x EXCEPT ![i] = 1] ELSE x
         oc1 == IF opening THEN Append(open_centers, i) ELSE open_centers
         res1 == IF opening THEN [residual EXCEPT ![i] = cap] ELSE residual
     IN IF CapacityFails(res1[i], pops[j])
        THEN /\ x' = x
             /\ open_centers' = open_centers
             /\ residual' = res1
             /\ stack' = SetTop([f EXCEPT !.k = f.k + 1, !.i = i, !.opening = opening,
                                           !.saved = SearchState])
             /\ pc' = "loop"
        ELSE /\ x' = x1
             /\ open_centers' = oc1
             /\ residual' = res1
             /\ stack' = SetTop([f EXCEPT !.i = i, !.opening = opening,
                                           !.saved = SearchState])
             /\ pc' = "assign"
  /\ UNCHANGED <<arg, ret, alpha, beta, communities, load, y, d_min, d_max,
                 x_best, y_best>>
  /\ UNCHANGED <<inst_vars, file_vars, verify_vars, greedy_vars>>

\* lines 64-73: tentative assignment and distance statistics
Assign ==
  /\ pc = "assign"
  /\ LET f == Top
         i == f.i
         j == f.j
         dj == Dist(i, j)
     IN /\ y' = y \cup {<<i, j>>}
        /\ residual' = [residual EXCEPT ![i] = @ - pops[j]]
        /\ load' = [load EXCEPT ![i] = @ + pops[j]]
        /\ stack' = SetTop([f EXCEPT !.old_dmin = d_min, !.old_dmax = d_max])
        /\ d_min' = IF d_min = None THEN Some(dj) ELSE Some(Min2(Val(d_min), dj))
        /\ d_max' = IF d_max = None THEN Some(dj) ELSE Some(Max2(Val(d_max), dj))
  /\ pc' = "prune"
  /\ UNCHANGED <<arg, ret, alpha, beta, communities, x, open_centers, x_best, y_best>>
  /\ UNCHANGED <<inst_vars, file_vars, verify_vars, greedy_vars>>

\* lines 75-80: fairness pruning, then the recursive call
Prune ==
  /\ pc = "prune"
  /\ IF Admissible(d_min, d_max, load, open_centers)
     THEN /\ arg' = Top.idx + 1
          /\ pc' = "call"
     ELSE /\ arg' = arg
          /\ pc' = "undo"
  /\ UNCHANGED <<ret, stack, alpha, beta, communities,
                 x, load, residual, y, open_centers, d_min, d_max, x_best, y_best>>
  /\ UNCHANGED <<inst_vars, file_vars, verify_vars, greedy_vars>>

\* lines 82-90: undo of the tentative assignment
Undo ==
  /\ pc = "undo"
  /\ LET f == Top
         i == f.i
         j == f.j
     IN /\ d_min' = f.old_dmin
        /\ d_max' = f.old_dmax
        /\ residual' = IF f.opening THEN [residual EXCEPT ![i] = 0]
                       ELSE [residual EXCEPT ![i] = @ + pops[j]]
        /\ load' = [load EXCEPT ![i] = @ - pops[j]]
        /\ y' = Unassign(y, i, j)
        /\ open_centers' = IF f.opening THEN Pop(open_centers) ELSE open_centers
        /\ x' = IF f.opening THEN [x EXCEPT ![i] = 0] ELSE x
        /\ stack' = SetTop([f EXCEPT !.k = f.k + 1])
  /\ pc' = "loop"
  /\ UNCHANGED <<arg, ret, alpha, beta, communities, x_best, y_best>>
  /\ UNCHANGED <<inst_vars, file_vars, verify_vars, greedy_vars>>

\* line 91: the candidates of this frame are exhausted
Exhausted ==
  /\ pc = "loop"
  /\ Top.k > Len(Top.candidates)
  /\ ret' = FALSE
  /\ stack' = Pop(stack)
  /\ pc' = "return"
  /\ UNCHANGED <<arg, alpha, beta, communities,
                 x, load, residual, y, open_centers, d_min, d_max, x_best, y_best>>
  /\ UNCHANGED <<inst_vars, file_vars, verify_vars, greedy_vars>>

\* lines 80-81: the recursive call returned into an enclosing frame
ReturnUndoes ==
  /\ pc = "return"
  /\ stack # <<>>
  /\ stack' = stack
  /\ pc' = "undo"
  /\ UNCHANGED <<arg, ret, alpha, beta, communities,
                 x, load, residual, y, open_centers, d_min, d_max, x_best, y_best>>
  /\ UNCHANGED <<inst_vars, file_vars, verify_vars, greedy_vars>>
Return ==
  /\ pc = "return"
  /\ stack # <<>>
  /\ IF ret
     THEN /\ stack' = Pop(stack)
          /\ pc' = "return"
     ELSE /\ stack' = stack
          /\ pc' = "undo"
  /\ UNCHANGED <<arg, ret, alpha, beta, communities,
                 x, load, residual, y, open_centers, d_min, d_max, x_best, y_best>>
  /\ UNCHANGED <<inst_vars, file_vars, verify_vars, greedy_vars>>

\* lines 93-96: backtrack(0) returned
Finish ==
  /\ pc = "return"
  /\ stack = <<>>
  /\ pc' = IF ret THEN "done" ELSE "failed"
  /\ UNCHANGED <<arg, ret, stack, alpha, beta, communities,
                 x, load, residual, y, open_centers, d_min, d_max, x_best, y_best>>
  /\ UNCHANGED <<inst_vars, file_vars, verify_vars, greedy_vars>>

Search ==
  \/ Setup \/ AllAssigned \/ Enter \/ TryCandidate \/ Assign \/ Prune \/ Undo
  \/ Exhausted \/ Return \/ Finish

(* -------------------- build_capacity_feasible_init --------------------- *)
\* lines 24-42: sizes, populations, the processing order and the empty result
InitSetup ==
  /\ ipc = "start"
  /\ communities_sorted' = SortedCommunities
  /\ init_pos' = 1
  /\ init_open' = <<>>
  /\ x_init' = [i \in 0..(N - 1) |-> 0]
  /\ y_init' = {}
  /\ ipc' = "loop"
  /\ UNCHANGED <<inst_vars, search_vars, file_vars, verify_vars>>

\* lines 50-59: the open centers that have room for pj, and among them the first
\* of strictly smallest pj * distance
Fits(oc, pj) == {c \in 1..Len(oc) : oc[c].load + pj <= cap}
BestCenter(oc, j) ==
  LET fit == Fits(oc, pops[j])
      cost(c) == pops[j] * Dist(oc[c].center, j)
  IN IF fit = {} THEN None
     ELSE Some(SetMin({c \in fit : \A d \in fit : cost(c) <= cost(d)}))

\* lines 44-80: one community of the loop
InitPlace ==
  /\ ipc = "loop"
  /\ init_pos <= Len(communities_sorted)
  /\ LET j == communities_sorted[init_pos]
         pj == pops[j]
         best_i == BestCenter(init_open, j)
     IN IF best_i # None
        THEN /\ init_open' = [init_open EXCEPT ![Val(best_i)].load = @ + pj]
             /\ y_init' = y_init \cup {<<init_open[Val(best_i)].center, j>>}
             /\ x_init' = x_init
             /\ init_pos' = init_pos + 1
             /\ ipc' = "loop"
        ELSE IF Len(init_open) < M
        THEN /\ init_open' = Append(init_open, [center |-> j, load |-> pj])
             /\ x_init' = [x_init EXCEPT ![j] = 1]
             /\ y_init' = y_init \cup {<<j, j>>}
             /\ init_pos' = init_pos + 1
             /\ ipc' = "loop"
        ELSE /\ UNCHANGED <<init_open, x_init, y_init, init_pos>>
             /\ ipc' = "returned"
  /\ UNCHANGED communities_sorted
  /\ UNCHANGED <<inst_vars, search_vars, file_vars, verify_vars>>

\* line 82: every community placed
InitReturn ==
  /\ ipc = "loop"
  /\ init_pos > Len(communities_sorted)
  /\ ipc' = "returned"
  /\ UNCHANGED <<communities_sorted, init_pos, init_open, x_init, y_init>>
  /\ UNCHANGED <<inst_vars, search_vars, file_vars, verify_vars>>

BuildInit == InitSetup \/ InitPlace \/ InitReturn

(* ---------------------------- _write_solution -------------------------- *)
\* ascending list of a finite set of integers (sorted())
SortedSeq(S) ==
  [r \in 1..Cardinality(S) |-> CHOOSE e \in S : Cardinality({b \in S : b < e}) = r - 1]

\* the deployed centers in ascending order, 0-based
WrittenCenters(xs) == SortedSeq({i \in DOMAIN xs : xs[i] = 1})

\* one "Healthcenter deployed at i+1: Communities Assigned = {j+1, ...}" line
WrittenIndexZeroBased(i) == i
WrittenIndex(i) == i + 1
WrittenLine(i, ys) ==
  [center |-> WrittenIndex(i),
   comms |-> LET js == SortedSeq({j \in 0..(N - 1) : <<i, j>> \in ys})
             IN [k \in 1..Len(js) |-> WrittenIndex(js[k])]]

\* max over the assigned pairs of population * distance
TrueObjective(ys) == SetMax({0} \cup {pops[q[2]] * Dist(q[1], q[2]) : q \in ys})

\* the result of the search written in the solution format
Serialize ==
  /\ pc = "done"
  /\ vpc = "idle"
  /\ sol_lines' = LET cs == WrittenCenters(x_best)
                  IN [k \in 1..Len(cs) |-> WrittenLine(cs[k], y_best)]
  /\ obj_val_reported' = TrueObjective(y_best) * Scale
  /\ vpc' = "parse"
  /\ UNCHANGED <<deployed, assign, vloc, out>>
  /\ UNCHANGED <<inst_vars, search_vars, greedy_vars>>

(* ------------------------------ verifier ------------------------------- *)
\* parse_instance: n, m, C, dist and pop keyed by the index column of the file
V_n == num_communities
V_m == num_health_centers
V_C == nodes[1].capacity
V_idx == {nodes[k].index : k \in 1..Len(nodes)}
V_pop == [idx \in V_idx |-> (CHOOSE nd \in Range(nodes) : nd.index = idx).population]
V_coords == [idx \in V_idx |->
               LET nd == CHOOSE nd \in Range(nodes) : nd.index = idx IN <<nd.x, nd.y>>]
V_dist(i, j) ==
  Sqrt((V_coords[i][1] - V_coords[j][1]) * (V_coords[i][1] - V_coords[j][1])
       + (V_coords[i][2] - V_coords[j][2]) * (V_coords[i][2] - V_coords[j][2]))

Msg(kind, args) == [kind |-> kind, args |-> args]
Emit(ms) == out' = out \o ms

\* parse_solution: one entry of deployed per line, the last line of a center wins
ParsedDeployed(ls) == [k \in 1..Len(ls) |-> ls[k].center]
ParsedAssignFirstWins(ls) ==
  [c \in {ls[k].center : k \in 1..Len(ls)} |->
     ls[SetMin({k \in 1..Len(ls) : ls[k].center = c})].comms]
ParsedAssign(ls) ==
  [c \in {ls[k].center : k \in 1..Len(ls)} |->
     ls[SetMax({k \in 1..Len(ls) : ls[k].center = c})].comms]

ParseSolution ==
  /\ vpc = "parse"
  /\ deployed' = ParsedDeployed(sol_lines)
  /\ assign' = ParsedAssign(sol_lines)
  /\ vpc' = "count"
  /\ UNCHANGED <<vloc, out>>
  /\ UNCHANGED <<inst_vars, search_vars, file_vars, greedy_vars>>

\* lines 66-68
TooMany(dep) == Len(dep) > V_m
CheckCountGoesOn ==
  /\ vpc = "count"
  /\ IF TooMany(deployed)
     THEN Emit(<<Msg("TooManyCenters", <<Len(deployed), V_m>>)>>)
     ELSE out' = out
  /\ vpc' = "orphan"
  /\ UNCHANGED <<deployed, assign, vloc>>
  /\ UNCHANGED <<inst_vars, search_vars, file_vars, greedy_vars>>
CheckCount ==
  /\ vpc = "count"
  /\ IF TooMany(deployed)
     THEN /\ Emit(<<Msg("TooManyCenters", <<Len(deployed), V_m>>)>>)
          /\ vpc' = "returned"
     ELSE /\ out' = out
          /\ vpc' = "orphan"
  /\ UNCHANGED <<deployed, assign, vloc>>
  /\ UNCHANGED <<inst_vars, search_vars, file_vars, greedy_vars>>

\* lines 70-73
ExtraKeys(asg, dep) == (DOMAIN asg) \ Range(dep)
CheckOrphan ==
  /\ vpc = "orphan"
  /\ IF ExtraKeys(assign, deployed) # {}
     THEN /\ Emit(<<Msg("OrphanAssignment", <<SortedSeq(ExtraKeys(assign, deployed))>>)>>)
          /\ vpc' = "returned"
     ELSE /\ out' = out
          /\ vpc' = "coverage"
  /\ UNCHANGED <<deployed, assign, vloc>>
  /\ UNCHANGED <<inst_vars, search_vars, file_vars, greedy_vars>>

\* lines 76-85; all_assigned is only used as a set and for counting
AssignedSet(asg) == UNION {Range(asg[c]) : c \in DOMAIN asg}
Count(asg, e) ==
  LET cnt == [c \in DOMAIN asg |-> Cardinality({k \in 1..Len(asg[c]) : asg[c][k] = e})]
  IN SumOver(cnt, DOMAIN asg)
CoverageFails(asg) == Cardinality(AssignedSet(asg)) # V_n
Missing(asg) == (1..V_n) \ AssignedSet(asg)
Dup(asg) == {e \in AssignedSet(asg) : Count(asg, e) > 1}
CheckCoverage ==
  /\ vpc = "coverage"
  /\ IF CoverageFails(assign)
     THEN /\ Emit(<<Msg("CoverageMismatch", <<>>)>>
                  \o (IF Missing(assign) # {}
                      THEN <<Msg("Missing", <<SortedSeq(Missing(assign))>>)>> ELSE <<>>)
                  \o (IF Dup(assign) # {}
                      THEN <<Msg("Duplicates", <<SortedSeq(Dup(assign))>>)>> ELSE <<>>))
          /\ vpc' = "returned"
     ELSE /\ out' = out
          /\ vpc' = "capacity"
  /\ UNCHANGED <<deployed, assign, vloc>>
  /\ UNCHANGED <<inst_vars, search_vars, file_vars, greedy_vars>>

\* sum(pop[j] for j in assign[i]); pop[j] raises KeyError for an unknown j
PopKnown(lst) == \A k \in 1..Len(lst) : lst[k] \in DOMAIN V_pop
Load(lst) == SumSeq([k \in 1..Len(lst) |-> V_pop[lst[k]]])

\* lines 88-92: the first deployed center, in order, that raises or is over capacity
CapacityStops(dep, asg) ==
  {k \in 1..Len(dep) : ~PopKnown(asg[dep[k]]) \/ Load(asg[dep[k]]) > V_C}
CheckCapacity ==
  /\ vpc = "capacity"
  /\ IF CapacityStops(deployed, assign) = {}
     THEN /\ out' = out
          /\ vpc' = "objective"
     ELSE LET i == deployed[SetMin(CapacityStops(deployed, assign))]
          IN IF ~PopKnown(assign[i])
             THEN /\ out' = out
                  /\ vpc' = "crashed"
             ELSE /\ Emit(<<Msg("CapacityExceeded", <<i, Load(assign[i]), V_C>>)>>)
                  /\ vpc' = "returned"
  /\ UNCHANGED <<deployed, assign, vloc>>
  /\ UNCHANGED <<inst_vars, search_vars, file_vars, greedy_vars>>

\* the (center, community) pairs of the loops over deployed and assign[i]
Pairs(dep, asg) == {<<dep[k], asg[dep[k]][l]>> : <<k, l>> \in
                      {q \in (1..Len(dep)) \X (1..(MaxN + MaxTokens)) :
                          q[2] <= Len(asg[dep[q[1]]])}}
DistKnown(q) == q[1] \in DOMAIN V_coords /\ q[2] \in DOMAIN V_coords

\* lines 95-100; dist[i, j] raises KeyError for an unknown center
Objective ==
  /\ vpc = "objective"
  /\ IF \A q \in Pairs(deployed, assign) : DistKnown(q)
     THEN /\ vloc' = [vloc EXCEPT !.obj =
                 SetMax({0} \cup {V_pop[q[2]] * V_dist(q[1], q[2]) :
                                    q \in Pairs(deployed, assign)})]
          /\ Emit(<<Msg("ReportedObjective", <<obj_val_reported>>),
                    Msg("RecomputedObjective", <<vloc'.obj>>)>>)
          /\ vpc' = "workload"
     ELSE /\ vloc' = vloc
          /\ out' = out
          /\ vpc' = "crashed"
  /\ UNCHANGED <<deployed, assign>>
  /\ UNCHANGED <<inst_vars, search_vars, file_vars, greedy_vars>>

\* lines 103-106; min() of no workload raises ValueError
V_alphaTruncated == SumOver(V_pop, DOMAIN V_pop) \div (5 * V_m)
V_alpha == RoundHalfEven(SumOver(V_pop, DOMAIN V_pop), 5 * V_m)
Workload ==
  /\ vpc = "workload"
  /\ LET workloads == {Load(assign[deployed[k]]) : k \in 1..Len(deployed)}
     IN IF workloads = {}
        THEN /\ vloc' = vloc
             /\ out' = out
             /\ vpc' = "crashed"
        ELSE /\ vloc' = [vloc EXCEPT !.wl_min = SetMin(workloads),
                                     !.wl_max = SetMax(workloads),
                                     !.alpha = V_alpha]
             /\ Emit(<<Msg("WorkloadGap", <<vloc'.wl_max - vloc'.wl_min, vloc'.alpha>>)>>)
             /\ vpc' = "distance"
  /\ UNCHANGED <<deployed, assign>>
  /\ UNCHANGED <<inst_vars, search_vars, file_vars, greedy_vars>>

\* lines 109-112; min() of no distance and max() of no pair raise ValueError
V_PairDists == {V_dist(i, j) : <<i, j>> \in {q \in (1..V_n) \X (1..V_n) : q[2] < q[1]}}
Distance ==
  /\ vpc = "distance"
  /\ LET dists == {V_dist(q[1], q[2]) : q \in Pairs(deployed, assign)}
     IN IF dists = {} \/ V_PairDists = {}
        THEN /\ vloc' = vloc
             /\ out' = out
             /\ vpc' = "crashed"
        ELSE /\ vloc' = [vloc EXCEPT !.d_min = SetMin(dists), !.d_max = SetMax(dists),
                                     !.beta = [num |-> SetMax(V_PairDists), den |-> 5]]
             /\ Emit(<<Msg("DistanceGap", <<vloc'.d_max - vloc'.d_min, vloc'.beta>>)>>)
             /\ vpc' = "verdict"
  /\ UNCHANGED <<deployed, assign>>
  /\ UNCHANGED <<inst_vars, search_vars, file_vars, greedy_vars>>

\* lines 114-121
ObjectiveFails(l) == Abs(l.obj * Scale - obj_val_reported) > 1
WorkloadFails(l) == (l.wl_max - l.wl_min) * Scale > l.alpha * Scale + 1
DistanceFails(l) == GtFracTol(l.d_max - l.d_min, l.beta)
VerdictOf(l) ==
  IF ObjectiveFails(l) THEN "FAIL: Objective mismatch."
  ELSE IF WorkloadFails(l) THEN "FAIL: Workload gap exceeds alpha."
  ELSE IF DistanceFails(l) THEN "FAIL: Distance gap exceeds beta."
  ELSE "Solution verified OK."
Verdict ==
  /\ vpc = "verdict"
  /\ Emit(<<Msg(VerdictOf(vloc), <<>>)>>)
  /\ vpc' = "returned"
  /\ UNCHANGED <<deployed, assign, vloc>>
  /\ UNCHANGED <<inst_vars, search_vars, file_vars, greedy_vars>>

Verify ==
  \/ ParseSolution \/ CheckCount \/ CheckOrphan \/ CheckCoverage \/ CheckCapacity
  \/ Objective \/ Workload \/ Distance \/ Verdict

(* ------------------------------- Spec ---------------------------------- *)
InitSearchState(p) ==
  /\ pc = p /\ arg = 0 /\ ret = FALSE /\ stack = <<>>
  /\ alpha = 0 /\ beta = [num |-> 0, den |-> 5] /\ communities = <<>>
  /\ x = [i \in 0..(num_communities - 1) |-> 0]
  /\ load = [i \in 0..(num_communities - 1) |-> 0]
  /\ residual = [i \in 0..(num_communities - 1) |-> 0]
  /\ y = {} /\ open_centers = <<>> /\ d_min = None /\ d_max = None
  /\ x_best = <<>> /\ y_best = {}

InitVerifyState(p) ==
  /\ vpc = p /\ deployed = <<>> /\ assign = <<>> /\ out = <<>>
  /\ vloc = [obj |-> 0, wl_min |-> 0, wl_max |-> 0, alpha |-> 0,
             d_min |-> 0, d_max |-> 0, beta |-> [num |-> 0, den |-> 5]]

InitGreedyState(p) ==
  /\ ipc = p /\ communities_sorted = <<>> /\ init_pos = 0 /\ init_open = <<>>
  /\ x_init = <<>> /\ y_init = {}

InitInstance(ns, sites, ps, caps) ==
  /\ num_communities \in ns
  /\ num_health_centers \in 1..MaxM
  /\ \E xy \in [1..num_communities -> sites], p \in [1..num_communities -> ps],
        c \in caps :
       nodes = MakeNodes(num_communities, xy, p, c)

\* the search on an instance, then the verifier on its written result
Init ==
  /\ InitInstance(1..MaxN, Sites, Pops, Caps)
  /\ InitSearchState("start")
  /\ sol_lines = <<>> /\ obj_val_reported = 0
  /\ InitVerifyState("idle")
  /\ InitGreedyState("idle")

Next == Search \/ Serialize \/ Verify

Spec == Init /\ [][Next]_vars

\* the verifier on an instance and any solution file of the format: up to two
\* center lines with MaxTokens community indices in all; centers and
\* communities range over 1..n+1, one more than the instance has
ObjReps == {0, 5 * Scale, 6 * Scale}
SeqsUpTo(S, n) == UNION {[1..k -> S] : k \in 0..n}
SolLines(n) ==
  {ls \in UNION {[1..k -> [center : 1..(n + 1), comms : SeqsUpTo(1..(n + 1), MaxTokens)]] :
                   k \in LineCounts} :
     SumSeq([k \in 1..Len(ls) |-> Len(ls[k].comms)]) <= MaxTokens}

InitV ==
  /\ InitInstance(VNs, VSites, VPops, VCaps)
  /\ InitSearchState("idle")
  /\ sol_lines \in SolLines(num_communities)
  /\ obj_val_reported \in ObjReps
  /\ InitVerifyState("parse")
  /\ InitGreedyState("idle")

NextV == Verify

SpecV == InitV /\ [][NextV]_vars

\* the search and the verifier on three communities of population 10 each, with
\* capacity 20 or 30
APops == {10}
ACaps == {20, 30}

InitA ==
  /\ InitInstance({3}, Sites, APops, ACaps)
  /\ InitSearchState("start")
  /\ sol_lines = <<>> /\ obj_val_reported = 0
  /\ InitVerifyState("idle")
  /\ InitGreedyState("idle")

SpecA == InitA /\ [][Next]_vars

\* build_capacity_feasible_init on an instance
InitI ==
  /\ InitInstance(1..MaxN, Sites, Pops, Caps)
  /\ InitSearchState("idle")
  /\ sol_lines = <<>> /\ obj_val_reported = 0
  /\ InitVerifyState("idle")
  /\ InitGreedyState("start")

NextI == BuildInit

SpecI == InitI /\ [][NextI]_vars

(* ------------------------ claims: the search --------------------------- *)
Opened(xs) == {i \in DOMAIN xs : xs[i] = 1}
AssignedLoad(ys, i) ==
  LET js == {q[2] : q \in {q \in ys : q[1] = i}} IN SumOver(pops, js)
Gap(S) == SetMax(S) - SetMin(S)
TotalPop == SumOver(pops, DOMAIN pops)

\* C1: a returned y_best assigns every community 0..N-1 to exactly one center
C1_ExactPartition ==
  pc = "done" =>
    /\ \A q \in y_best : q[1] \in 0..(N - 1) /\ q[2] \in 0..(N - 1)
    /\ \A j \in 0..(N - 1) : Cardinality({q \in y_best : q[2] = j}) = 1

C1_Witness ==
  /\ pc = "done" /\ N = 3
  /\ Cardinality({q[1] : q \in y_best}) = 2

\* C2: at most M centers are open and no open center carries more than C, in
\* every state of the search and in the returned (x_best, y_best)
C2_CountAndCapacity ==
  /\ Len(open_centers) <= M
  /\ \A c \in Range(open_centers) : load[c] <= cap
  /\ pc = "done" =>
       /\ Cardinality(Opened(x_best)) <= M
       /\ \A i \in Opened(x_best) : AssignedLoad(y_best, i) <= cap

C2_Witness ==
  /\ pc = "prune" /\ Len(open_centers) = 2 /\ M = 2
  /\ \E c \in Range(open_centers) : load[c] = cap /\ Cardinality({q \in y : q[1] = c}) = 2

\* C3: a returned assignment has workload gap <= round(total population / (5 M))
\* and distance gap <= (maximum pairwise distance) / 5
C3_FairnessGaps ==
  pc = "done" =>
    /\ Gap({AssignedLoad(y_best, i) : i \in Opened(x_best)})
         <= RoundHalfEven(TotalPop, 5 * M)
    /\ LeqFrac(Gap({Dist(q[1], q[2]) : q \in y_best}),
               [num |-> SetMax(PairDists), den |-> 5])

C3_Witness ==
  /\ pc = "done"
  /\ Gap({AssignedLoad(y_best, i) : i \in Opened(x_best)}) > 0
  /\ Gap({Dist(q[1], q[2]) : q \in y_best}) > 0

\* an assignment of every community to a center that satisfies invariants 1-5
Feasible(f) ==
  LET centers == {f[j] : j \in DOMAIN f}
      loadOf(i) == SumOver(pops, {j \in DOMAIN f : f[j] = i})
  IN /\ Cardinality(centers) <= M
     /\ \A i \in centers : loadOf(i) <= cap
     /\ Gap({loadOf(i) : i \in centers}) <= RoundHalfEven(TotalPop, 5 * M)
     /\ LeqFrac(Gap({Dist(f[j], j) : j \in DOMAIN f}),
                [num |-> SetMax(PairDists), den |-> 5])
FeasibleExists == \E f \in [0..(N - 1) -> 0..(N - 1)] : Feasible(f)

\* C4: the search raises NoFeasibleSolution only when no assignment satisfies
\* invariants 1-5
C4_FailsOnlyIfInfeasible == pc = "failed" => ~FeasibleExists

\* C5: the verifier, run on the written result of a successful search, ends
\* with the verdict "Solution verified OK."
C5_RoundTrip ==
  (pc = "done" /\ vpc \in {"returned", "crashed"}) =>
    /\ vpc = "returned"
    /\ out # <<>> /\ out[Len(out)].kind = "Solution verified OK."
    /\ \A k \in 1..(Len(out) - 1) :
         out[k].kind \in {"ReportedObjective", "RecomputedObjective",
                          "WorkloadGap", "DistanceGap"}

C5_Witness ==
  /\ pc = "done" /\ vpc = "returned" /\ Len(deployed) = 2
  /\ \E c \in DOMAIN assign : Len(assign[c]) = 2

(* ----------------------- claims: the verifier -------------------------- *)
Kinds == {out[k].kind : k \in 1..Len(out)}
StructuralKinds == {"TooManyCenters", "OrphanAssignment", "CoverageMismatch",
                    "CapacityExceeded"}
MetricKinds == {"ReportedObjective", "RecomputedObjective", "WorkloadGap", "DistanceGap"}
VerdictKinds == {"FAIL: Objective mismatch.", "FAIL: Workload gap exceeds alpha.",
                 "FAIL: Distance gap exceeds beta.", "Solution verified OK."}
Ended == vpc \in {"returned", "crashed"}

\* the assigned indices, as a multiset, are not exactly 1..n
MultisetMismatch(asg) ==
  \/ AssignedSet(asg) # 1..V_n
  \/ \E e \in AssignedSet(asg) : Count(asg, e) # 1

\* C7: a solution that passes the first two checks and whose assigned indices
\* are not exactly 1..n as a multiset ends in CoverageMismatch and nothing else
C7_CoverageMismatchReported ==
  (Ended /\ ~TooMany(deployed) /\ ExtraKeys(assign, deployed) = {}
     /\ MultisetMismatch(assign)) =>
    /\ vpc = "returned"
    /\ out # <<>> /\ out[1].kind = "CoverageMismatch"
    /\ Kinds \cap (MetricKinds \cup VerdictKinds) = {}

\* C8: verify never ends with an uncaught exception
C8_NeverCrashes == vpc # "crashed"

\* the four structural checks pass
StructuralPass ==
  /\ ~TooMany(deployed) /\ ExtraKeys(assign, deployed) = {}
  /\ ~CoverageFails(assign) /\ CapacityStops(deployed, assign) = {}

\* C9: when the structural checks pass, the output is the four diagnostic lines
\* and then one verdict, OK exactly when the three tolerances hold, else the
\* first failing check in the order objective, workload gap, distance gap
C9_DiagnosticsThenVerdict ==
  (Ended /\ StructuralPass) =>
    /\ vpc = "returned"
    /\ [k \in 1..Len(out) |-> out[k].kind] \in
         {<<"ReportedObjective", "RecomputedObjective", "WorkloadGap", "DistanceGap", v>> :
            v \in VerdictKinds}
    /\ out[5].kind =
         (IF Abs(vloc.obj * Scale - obj_val_reported) > 1
          THEN "FAIL: Objective mismatch."
          ELSE IF (vloc.wl_max - vloc.wl_min) * Scale > vloc.alpha * Scale + 1
          THEN "FAIL: Workload gap exceeds alpha."
          ELSE IF GtFracTol(vloc.d_max - vloc.d_min, vloc.beta)
          THEN "FAIL: Distance gap exceeds beta."
          ELSE "Solution verified OK.")

\* some deployed center, all of whose communities are known, is over capacity
\* before any center with an unknown community is met
FirstStopIsOverload ==
  /\ CapacityStops(deployed, assign) # {}
  /\ PopKnown(assign[deployed[SetMin(CapacityStops(deployed, assign))]])

\* the structural check, if any, that is the first to fail in the fixed order
FirstFailing ==
  IF TooMany(deployed) THEN "TooManyCenters"
  ELSE IF ExtraKeys(assign, deployed) # {} THEN "OrphanAssignment"
  ELSE IF CoverageFails(assign) THEN "CoverageMismatch"
  ELSE IF FirstStopIsOverload THEN "CapacityExceeded"
  ELSE "none"

SearchEnded == pc \in {"done", "failed", "crashed"}

\* three communities of population 10, capacity 20, two centers allowed
ScenarioA == N = 3 /\ M = 2 /\ cap = 20 /\ \A j \in 0..(N - 1) : pops[j] = 10

\* C11 as stated: on scenario A the search succeeds with exactly two open
\* centers, one of load 20 serving two communities and one of load 10 serving
\* one, and the workload gap 10 is at most alpha
C11_ScenarioASucceeds ==
  (ScenarioA /\ SearchEnded) =>
    /\ pc = "done"
    /\ Cardinality(Opened(x_best)) = 2
    /\ \E a, b \in Opened(x_best) :
         /\ AssignedLoad(y_best, a) = 20 /\ Cardinality({q \in y_best : q[1] = a}) = 2
         /\ AssignedLoad(y_best, b) = 10 /\ Cardinality({q \in y_best : q[1] = b}) = 1
    /\ 10 <= alpha

\* C11 amended: on scenario A alpha is round(30 / 10) = 3, below the workload gap
\* 10 of the only split that capacity allows, and the search ends by raising
\* NoFeasibleSolution
C11_ScenarioAFails ==
  (ScenarioA /\ pc # "start") =>
    /\ alpha = 3
    /\ pc # "done"
    /\ SearchEnded => pc = "failed"

C11_Witness == ScenarioA /\ pc = "failed" /\ alpha = 3

\* C12: for N = 1 and M = 1 with population <= capacity the search returns one
\* open center at the sole community with that community assigned to it, and
\* the verifier recomputes workload gap, distance gap and objective as 0
C12_ScenarioBSucceeds ==
  (N = 1 /\ M = 1 /\ pops[0] <= cap /\ SearchEnded) =>
    /\ pc = "done"
    /\ x_best = [i \in {0} |-> 1]
    /\ y_best = {<<0, 0>>}
    /\ Ended =>
         /\ vpc = "returned"
         /\ vloc.obj = 0
         /\ vloc.wl_max - vloc.wl_min = 0
         /\ vloc.d_max - vloc.d_min = 0

(* ------------------ claims: the verifier's reports --------------------- *)
\* the communities of 1..n that appear in no assignment list
AbsentIndices ==
  {k \in 1..V_n : \A c \in DOMAIN assign : \A l \in 1..Len(assign[c]) : assign[c][l] # k}

\* C13: a solution that passes the center-count check and leaves some community
\* of 1..n out of every list is reported as CoverageMismatch, with a Missing
\* list that is exactly the ascending list of the absent indices
C13_MissingReported ==
  (Ended /\ ~TooMany(deployed) /\ AbsentIndices # {}) =>
    /\ vpc = "returned"
    /\ out # <<>> /\ out[1].kind = "CoverageMismatch"
    /\ \E k \in 1..Len(out) : out[k] = Msg("Missing", <<SortedSeq(AbsentIndices)>>)

\* the (center, community) pairs of the parsed solution
AssignedPairs == {<<c, assign[c][l]>> : <<c, l>> \in
                    {q \in (DOMAIN assign) \X (1..MaxTokens) : q[2] <= Len(assign[q[1]])}}
CentersKnown == \A k \in 1..Len(deployed) : deployed[k] \in 1..V_n
MaxWeightedDistance == SetMax({V_pop[q[2]] * V_dist(q[1], q[2]) : q \in AssignedPairs})

\* C14: for a structurally valid solution the recomputed objective is the
\* maximum of population(community) * distance(center, community) over the
\* assigned pairs; when the reported objective differs from it by more than
\* 1e-6 both values are printed and the verdict is ObjectiveMismatch, whatever
\* the workload and distance gaps are
C14_ObjectiveMismatchFirst ==
  (Ended /\ StructuralPass /\ CentersKnown
     /\ Abs(MaxWeightedDistance * Scale - obj_val_reported) > 1) =>
    /\ vpc = "returned"
    /\ Len(out) >= 2
    /\ out[1] = Msg("ReportedObjective", <<obj_val_reported>>)
    /\ out[2] = Msg("RecomputedObjective", <<MaxWeightedDistance>>)
    /\ out[Len(out)].kind = "FAIL: Objective mismatch."

\* C15: the search and the verifier compute the same thresholds on every
\* instance: alpha by the same rounding of total population / (5 M), beta as a
\* fifth of the maximum over the same pairwise distances, the search reading
\* communities 0..N-1 and the verifier 1..n; compared when the search has set
\* its thresholds, when it ends, and when the verifier has stored its own
C15_SameThresholds ==
  /\ (pc \in {"crashed", "done", "failed"} \/ (pc = "call" /\ stack = <<>>)) =>
       /\ PairDists = V_PairDists
       /\ pc # "crashed" =>
            /\ alpha = V_alpha
            /\ beta = [num |-> SetMax(V_PairDists), den |-> 5]
  /\ (pc = "done" /\ vpc \in {"verdict", "returned"}) =>
       /\ vloc.alpha = alpha
       /\ vloc.beta = beta

C15_Witness ==
  /\ pc = "done" /\ vpc = "returned"
  /\ N = 3 /\ vloc.alpha = 1 /\ vloc.beta.num = 25 /\ alpha = 1 /\ beta.num = 25

(* --------------------- claims: the frames of the search ---------------- *)
\* C16: when a candidate has been abandoned (capacity check, pruning or a failed
\* recursive call) the search state open_centers, x, load, residual, y, d_min,
\* d_max is the state from before that candidate was tried; a center opened for
\* it is closed with residual 0; a frame about to return False leaves the state
\* as it was at its entry
C16_TotalRollback ==
  /\ (pc = "loop" /\ Top.k > 1) => SearchState = Top.saved
  /\ (pc = "loop" /\ Top.k > 1 /\ Top.opening) => x[Top.i] = 0 /\ residual[Top.i] = 0
  /\ (pc = "loop" /\ Top.k > Len(Top.candidates)) => SearchState = Top.entry

\* the candidates of frame f that are open centers, and the position of a
\* center in the list of open centers that the frame found at its entry
OpenPart(f) ==
  IF Len(f.entry.open_centers) < M
  THEN SubSeq(f.candidates, 1, Len(f.candidates) - 1) ELSE f.candidates
OpenedAt(f, c) == CHOOSE p \in 1..Len(f.entry.open_centers) : f.entry.open_centers[p] = c

\* the candidate list of frame f: the open centers by ascending distance to j,
\* equal distances by ascending center index (byIndex) or in the order of
\* opening; then j itself, last, exactly when fewer than M centers are open
CandidateOrder(f, byIndex) ==
  LET oc == f.entry.open_centers
      op == OpenPart(f)
  IN /\ Len(op) = Len(oc) /\ Range(op) = Range(oc)
     /\ \A a \in 1..(Len(op) - 1) :
          \/ Dist(op[a], f.j) < Dist(op[a + 1], f.j)
          \/ /\ Dist(op[a], f.j) = Dist(op[a + 1], f.j)
             /\ IF byIndex THEN op[a] < op[a + 1]
                ELSE OpenedAt(f, op[a]) < OpenedAt(f, op[a + 1])
     /\ Len(f.candidates) = Len(oc) + (IF Len(oc) < M THEN 1 ELSE 0)
     /\ Len(oc) < M => f.candidates[Len(f.candidates)] = f.j /\ f.j \notin Range(oc)

\* the candidate in hand is the k-th of the list of the innermost frame
TriedInListOrder ==
  pc \in {"assign", "prune", "undo"} => Top.i = Top.candidates[Top.k]

\* C17 as stated: candidates are tried by ascending distance, equal distances
\* by ascending center index, a new center at j last and only below M centers
C17_TiesByCenterIndex ==
  /\ stack # <<>> => CandidateOrder(Top, TRUE)
  /\ TriedInListOrder

\* C17 amended: equal distances are tried in the order in which the centers
\* were opened, the order the stable sort finds them in
C17_TiesByOpeningOrder ==
  /\ stack # <<>> => CandidateOrder(Top, FALSE)
  /\ TriedInListOrder

\* a frame whose two open centers are equally far from j, the later index
\* opened, and tried, first
C17_Witness ==
  /\ pc = "prune" /\ stack # <<>> /\ Top.k = 2
  /\ Len(Top.entry.open_centers) = 2
  /\ Dist(Top.candidates[1], Top.j) = Dist(Top.candidates[2], Top.j)
  /\ Top.candidates[1] > Top.candidates[2]
  /\ Top.entry.open_centers = Top.candidates

\* the partial assignment that places the first n communities of the processing
\* order at the centers cs[1..n]: open centers in order of opening, loads,
\* distance extremes, the position of each choice in its candidate list, and
\* whether every step was a candidate within capacity and admissible
RECURSIVE Replay(_, _)
Replay(cs, n) ==
  IF n = 0
  THEN [oc |-> <<>>, ld |-> [i \in 0..(N - 1) |-> 0], dmin |-> None, dmax |-> None,
        ok |-> TRUE, rank |-> <<>>]
  ELSE LET s == Replay(cs, n - 1)
           j == communities[n]
           i == cs[n]
           cand == Candidates(s.oc, j)
           oc1 == IF i \in Range(s.oc) THEN s.oc ELSE Append(s.oc, i)
           ld1 == [s.ld EXCEPT ![i] = @ + pops[j]]
           dmin1 == IF s.dmin = None THEN Some(Dist(i, j))
                    ELSE Some(Min2(Val(s.dmin), Dist(i, j)))
           dmax1 == IF s.dmax = None THEN Some(Dist(i, j))
                    ELSE Some(Max2(Val(s.dmax), Dist(i, j)))
       IN IF ~s.ok THEN s
          ELSE IF \/ i \notin Range(cand)
                  \/ ld1[i] > cap
                  \/ ~Admissible(dmin1, dmax1, ld1, oc1)
          THEN [s EXCEPT !.ok = FALSE]
          ELSE [oc |-> oc1, ld |-> ld1, dmin |-> dmin1, dmax |-> dmax1, ok |-> TRUE,
                rank |-> Append(s.rank, CHOOSE p \in 1..Len(cand) : cand[p] = i)]

\* the complete assignments every prefix of which the search would accept
CompleteRuns == {cs \in [1..N -> 0..(N - 1)] : Replay(cs, N).ok}

\* r comes no later than q in depth-first order: at the first community where
\* they differ, r takes the earlier candidate
NoLater(r, q) ==
  \/ r = q
  \/ \E n \in 1..Len(r) : r[n] < q[n] /\ \A l \in 1..(n - 1) : r[l] = q[l]

\* the returned assignment, as the center of each community in processing order
ReturnedRun == [n \in 1..N |-> CHOOSE i \in 0..(N - 1) : <<i, communities[n]>> \in y_best]

FirstInOrder ==
  (pc = "done" /\ vpc = "idle") =>
    LET returned == Replay(ReturnedRun, N)
    IN /\ \A n \in 1..N : \E i \in 0..(N - 1) : <<i, communities[n]>> \in y_best
       /\ returned.ok
       /\ \A cs \in [1..N -> 0..(N - 1)] :
            LET other == Replay(cs, N) IN other.ok => NoLater(returned.rank, other.rank)
       /\ x_best = x /\ y_best = y

\* once the frame after the last community has been reached, frames are only
\* left, nothing of the search state or of the result changes, and no candidate
\* is tried or undone
SuccessPropagates ==
  /\ (~ret /\ ret') =>
       /\ pc = "call" /\ arg = Len(communities)
       /\ x_best' = x /\ y_best' = y
       /\ SearchState' = SearchState /\ stack' = stack
  /\ ret =>
       /\ ret'
       /\ SearchState' = SearchState /\ x_best' = x_best /\ y_best' = y_best
       /\ stack' = stack \/ stack' = Pop(stack)
       /\ pc' \in {"return", "done"}

\* C18: success propagates through every enclosing frame with no further
\* candidate evaluated and no undo step, and the returned assignment is the
\* first complete admissible assignment in depth-first order (communities by
\* descending population, candidates in list order), equal to the committed
\* search state
C18_FirstFeasible == [][SuccessPropagates]_vars /\ []FirstInOrder

\* success reached three frames deep while another complete assignment exists
C18_Witness ==
  /\ pc = "return" /\ ret /\ Len(stack) = 3
  /\ Cardinality(CompleteRuns) >= 2

\* C19: the search ends only in one of two terminal states, AllAssigned (an
\* assignment is returned) or Exhausted at frame 0 (NoFeasibleSolution); the
\* stack of frames is never deeper than N; and no frame holds, or evaluates,
\* more than min(|open|, M) + 1 candidates
C19_TerminatesInTwoStates ==
  /\ (pc # "idle" /\ ~ENABLED Search) => pc \in {"done", "failed"}
  /\ Len(stack) <= N
  /\ \A n \in 1..Len(stack) :
       LET f == stack[n]
           most == Min2(Len(f.entry.open_centers), M) + 1
       IN Len(f.candidates) <= most /\ f.k <= most + 1

(* ---------------- claims: build_capacity_feasible_init ----------------- *)
\* C20: in whatever build_capacity_feasible_init returns, complete or partial,
\* at most M centers are open and the population assigned to each open center
\* is at most C, a center newly opened at a community included
C20_InitRespectsCapacity ==
  ipc = "returned" =>
    /\ Cardinality(Opened(x_init)) <= M
    /\ \A i \in Opened(x_init) : AssignedLoad(y_init, i) <= cap

(* ------------------ claims: centers and their own site ----------------- *)
\* C21: whenever a recursive call is made or success is recorded, every open
\* center i serves the community at its own site, (i, i) in y; a returned
\* assignment has no center whose own community is assigned elsewhere; d_min
\* is 0 once the first community is committed; and the distance test of the
\* pruning is the test d_max <= beta
C21_CentersServeOwnSite ==
  /\ pc = "call" =>
       /\ \A i \in Range(open_centers) : <<i, i>> \in y
       /\ \A i \in 0..(N - 1) : x[i] = 1 <=> i \in Range(open_centers)
       /\ arg >= 1 => d_min = Some(0)
  /\ pc = "prune" =>
       /\ d_min = Some(0)
       /\ LeqFrac(Val(d_max) - Val(d_min), beta) <=> LeqFrac(Val(d_max), beta)
  /\ (pc = "done" /\ vpc = "idle") =>
       /\ \A i \in Opened(x_best) : <<i, i>> \in y_best
       /\ \A q \in y_best : q[1] \in Opened(x_best)

\* a call with two open centers and a community served away from its own site
C21_Witness ==
  /\ pc = "call" /\ arg = 3 /\ Len(open_centers) = 2
  /\ d_min = Some(0) /\ Val(d_max) > 0
  /\ \E q \in y : q[1] # q[2]

(* --------------------- claims: the parsed solution --------------------- *)
\* the center lines of the solution file that name center c
LinesOf(c) == {k \in 1..Len(sol_lines) : sol_lines[k].center = c}

\* C22: in what parse_solution returns, every key of the assignment mapping is
\* in the deployed list, so verify never reports OrphanAssignment; a center
\* named on several lines is in deployed once per line, and the mapping keeps
\* the communities of its last line only
C22_KeysAreDeployed ==
  /\ vpc \notin {"idle", "parse"} =>
       /\ DOMAIN assign \subseteq Range(deployed)
       /\ Len(deployed) = Len(sol_lines)
       /\ \A c \in DOMAIN assign :
            /\ Cardinality({k \in 1..Len(deployed) : deployed[k] = c})
                 = Cardinality(LinesOf(c))
            /\ \E k \in LinesOf(c) :
                 /\ \A l \in LinesOf(c) : l <= k
                 /\ assign[c] = sol_lines[k].comms
  /\ \A k \in 1..Len(out) : out[k].kind # "OrphanAssignment"

\* a center named on two lines with different communities, verified to the end
C22_Witness ==
  /\ vpc = "returned" /\ out # <<>> /\ out[Len(out)].kind \in VerdictKinds
  /\ Len(sol_lines) = 2 /\ sol_lines[1].center = sol_lines[2].center
  /\ sol_lines[1].comms # sol_lines[2].comms
  /\ Len(deployed) = 2 /\ deployed[1] = deployed[2]
  /\ assign[deployed[1]] = sol_lines[2].comms

====
